---- MODULE Spec2Model ----
(***************************************************************************)
(* Model of the chat-log parser of app.py (detect_header,                  *)
(* robust_preprocess) and of the empty-table paths of helper.py.           *)
(*                                                                         *)
(* A string is a sequence of one-character strings.  The input text is     *)
(* kept as the sequence of lines text.splitlines() yields.                 *)
(***************************************************************************)
EXTENDS Integers, Sequences, FiniteSets, TLC

VARIABLES text, pc, lines, idx, cur, records, table, call

vars == <<text, pc, lines, idx, cur, records, table, call>>

\* Optional values: None of Python is the empty tuple, a value x is <<x>>.
None == <<>>
Some(x) == <<x>>

----------------------------------------------------------------------------
(* Characters and string helpers (str methods used by app.py).             *)

DigitChars == {"0", "1", "2", "3", "4", "5", "6", "7", "8", "9"}

\* str.strip(), str.isspace(), regex \s: the whitespace characters.
SpaceChars == {" ", "\t", "\n", "\r"}

DigitVal(c) ==
    CASE c = "0" -> 0 [] c = "1" -> 1 [] c = "2" -> 2 [] c = "3" -> 3
      [] c = "4" -> 4 [] c = "5" -> 5 [] c = "6" -> 6 [] c = "7" -> 7
      [] c = "8" -> 8 [] c = "9" -> 9

RECURSIVE ToInt(_)
\* int() of a run of decimal digits.
ToInt(s) ==
    IF s = <<>> THEN 0
    ELSE 10 * ToInt(SubSeq(s, 1, Len(s) - 1)) + DigitVal(s[Len(s)])

\* str.upper() on the letters the time captures can hold.
UpperChar(c) ==
    CASE c = "a" -> "A" [] c = "p" -> "P" [] c = "m" -> "M" [] OTHER -> c

Upper(s) == [i \in 1..Len(s) |-> UpperChar(s[i])]

\* str.strip(): drop leading and trailing whitespace.
Strip(s) ==
    LET keep == {i \in 1..Len(s) : s[i] \notin SpaceChars}
    IN  IF keep = {} THEN <<>>
        ELSE LET lo == CHOOSE i \in keep : \A j \in keep : i <= j
                 hi == CHOOSE i \in keep : \A j \in keep : j <= i
             IN  SubSeq(s, lo, hi)

RECURSIVE Join(_)
\* "\n".join(parts)
Join(parts) ==
    IF parts = <<>> THEN <<>>
    ELSE IF Len(parts) = 1 THEN parts[1]
    ELSE parts[1] \o <<"\n">> \o Join(Tail(parts))

\* sub in s
Contains(s, sub) ==
    \E i \in 1..(Len(s) - Len(sub) + 1) : SubSeq(s, i, i + Len(sub) - 1) = sub

\* s.split(sep) for a one-character separator: the pieces between separators.
Split(s, sep) ==
    LET cuts == {i \in 1..Len(s) : s[i] = sep}
        RECURSIVE Pieces(_)
        Pieces(from) ==
            LET next == {i \in cuts : i >= from}
            IN  IF next = {} THEN <<SubSeq(s, from, Len(s))>>
                ELSE LET c == CHOOSE i \in next : \A j \in next : i <= j
                     IN  <<SubSeq(s, from, c - 1)>> \o Pieces(c + 1)
    IN  Pieces(1)

----------------------------------------------------------------------------
(* Regular expressions, as re.match evaluates them: a pattern is a         *)
(* sequence of items tried left to right with backtracking, greedy         *)
(* repetitions first.                                                      *)

\* One repetition item: between min and max characters of class cls
\* (max = -1: no upper limit, the + and * of the patterns).
Rep(cls, ch, min, max) ==
    <<[k |-> "rep", cls |-> cls, ch |-> ch, min |-> min, max |-> max, sub |-> <<>>]>>

\* A literal string.
Lits(s) == [i \in 1..Len(s) |->
    [k |-> "rep", cls |-> "lit", ch |-> s[i], min |-> 1, max |-> 1, sub |-> <<>>]]

\* ( and ) of capture group g, (?: ... )? and $.
Open(g) == <<[k |-> "open", cls |-> "", ch |-> "", min |-> g, max |-> g, sub |-> <<>>]>>
Close(g) == <<[k |-> "close", cls |-> "", ch |-> "", min |-> g, max |-> g, sub |-> <<>>]>>
Opt(items) == <<[k |-> "opt", cls |-> "", ch |-> "", min |-> 0, max |-> 1, sub |-> items]>>
EndAnchor == <<[k |-> "end", cls |-> "", ch |-> "", min |-> 0, max |-> 0, sub |-> <<>>]>>

InClass(c, it) ==
    CASE it.cls = "lit"      -> c = it.ch
      [] it.cls = "digit"    -> c \in DigitChars
      [] it.cls = "space"    -> c \in SpaceChars
      [] it.cls = "notcolon" -> c # ":"
      [] it.cls = "dot"      -> c # "\n"
      [] it.cls = "APap"     -> c \in {"A", "P", "a", "p"}
      [] it.cls = "Mm"       -> c \in {"M", "m"}

NoCaps == [g \in 1..4 |-> [s |-> 1, e |-> 1]]

RECURSIVE MatchFrom(_, _, _, _)
\* The first match of items on s from position pos, as the captures'
\* spans (Some), or None.
MatchFrom(items, s, pos, caps) ==
    IF items = <<>> THEN Some(caps)
    ELSE
    LET it   == Head(items)
        rest == Tail(items)
    IN  CASE it.k = "open"  ->
                MatchFrom(rest, s, pos, [caps EXCEPT ![it.min].s = pos])
          [] it.k = "close" ->
                MatchFrom(rest, s, pos, [caps EXCEPT ![it.min].e = pos])
          [] it.k = "end"   ->
                IF pos = Len(s) + 1 \/ (pos = Len(s) /\ s[pos] = "\n")
                THEN MatchFrom(rest, s, pos, caps) ELSE None
          [] it.k = "opt"   ->
                LET with == MatchFrom(it.sub \o rest, s, pos, caps)
                IN  IF with # None THEN with ELSE MatchFrom(rest, s, pos, caps)
          [] it.k = "rep"   ->
                LET avail == Len(s) - pos + 1
                    lim == IF it.max < 0 \/ it.max > avail THEN avail ELSE it.max
                    RECURSIVE Run(_)
                    \* the longest run of characters of the class, up to lim
                    Run(c) == IF c < lim /\ InClass(s[pos + c], it)
                              THEN Run(c + 1) ELSE c
                    RECURSIVE TryCount(_)
                    TryCount(c) ==
                        IF c < it.min THEN None
                        ELSE LET r == MatchFrom(rest, s, pos + c, caps)
                             IN  IF r # None THEN r ELSE TryCount(c - 1)
                IN  TryCount(Run(0))

\* re.match(pat, line): anchored at the start of the line.
ReMatch(pat, line) == MatchFrom(pat, line, 1, NoCaps)

\* m.group(g)
Group(line, m, g) == SubSeq(line, m[1][g].s, m[1][g].e - 1)

----------------------------------------------------------------------------
(* HEADER_PATTERNS: the four header grammars with their format hints.      *)
(* A format is the sequence of its directives and literal characters.      *)

\* (\d{1,2}/\d{1,2}/\d{2,4})
DateGroup ==
    Open(1) \o Rep("digit", "", 1, 2) \o Lits(<<"/">>) \o Rep("digit", "", 1, 2)
            \o Lits(<<"/">>) \o Rep("digit", "", 2, 4) \o Close(1)

\* \d{1,2}:\d{2}
HourMinute == Rep("digit", "", 1, 2) \o Lits(<<":">>) \o Rep("digit", "", 2, 2)

\* (?::\d{2})?
OptSeconds == Opt(Lits(<<":">>) \o Rep("digit", "", 2, 2))

\* \s?[APap][Mm]
AmPm == Rep("space", "", 0, 1) \o Rep("APap", "", 1, 1) \o Rep("Mm", "", 1, 1)

\* ([^:]+): (.*)$
AuthorMessage ==
    Open(3) \o Rep("notcolon", "", 1, -1) \o Close(3) \o Lits(<<":", " ">>)
            \o Open(4) \o Rep("dot", "", 0, -1) \o Close(4) \o EndAnchor

DMY == <<"%d", "/", "%m", "/", "%Y">>
MDY == <<"%m", "/", "%d", "/", "%Y">>
HM == <<"%H", ":", "%M">>
HMS == <<"%H", ":", "%M", ":", "%S">>
IMp == <<"%I", ":", "%M", " ", "%p">>
IMSp == <<"%I", ":", "%M", ":", "%S", " ", "%p">>

\* Android 24h: ^(date), (\d{1,2}:\d{2}) - ([^:]+): (.*)$
PatAndroid24 ==
    DateGroup \o Lits(<<",", " ">>) \o Open(2) \o HourMinute \o Close(2)
              \o Lits(<<" ", "-", " ">>) \o AuthorMessage

\* Variant of the Android 12h grammar with the AM/PM marker optional.
PatAndroid12OptionalMarker ==
    DateGroup \o Lits(<<",", " ">>) \o Open(2) \o HourMinute \o Opt(AmPm) \o Close(2)
              \o Lits(<<" ", "-", " ">>) \o AuthorMessage

\* Android 12h: ^(date), (\d{1,2}:\d{2}\s?[APap][Mm]) - ([^:]+): (.*)$
PatAndroid12 ==
    DateGroup \o Lits(<<",", " ">>) \o Open(2) \o HourMinute \o AmPm \o Close(2)
              \o Lits(<<" ", "-", " ">>) \o AuthorMessage

\* iOS: ^\[(date), (\d{1,2}:\d{2}(?::\d{2})?)\] ([^:]+): (.*)$
PatIos24 ==
    Lits(<<"[">>) \o DateGroup \o Lits(<<",", " ">>)
              \o Open(2) \o HourMinute \o OptSeconds \o Close(2)
              \o Lits(<<"]", " ">>) \o AuthorMessage

\* iOS AM/PM: ^\[(date), (\d{1,2}:\d{2}(?::\d{2})?\s?[APap][Mm])\] ([^:]+): (.*)$
PatIos12 ==
    Lits(<<"[">>) \o DateGroup \o Lits(<<",", " ">>)
              \o Open(2) \o HourMinute \o OptSeconds \o AmPm \o Close(2)
              \o Lits(<<"]", " ">>) \o AuthorMessage

HEADER_PATTERNS ==
    << [pat |-> PatAndroid24, d_fmt |-> DMY, t_fmt |-> Some(HM)],
       [pat |-> PatAndroid12, d_fmt |-> DMY, t_fmt |-> Some(IMp)],
       [pat |-> PatIos24,     d_fmt |-> DMY, t_fmt |-> None],
       [pat |-> PatIos12,     d_fmt |-> DMY, t_fmt |-> None] >>

RECURSIVE FirstMatch(_, _)
\* The loop of detect_header from grammar k on.
FirstMatch(line, k) ==
    IF k > Len(HEADER_PATTERNS) THEN None
    ELSE IF ReMatch(HEADER_PATTERNS[k].pat, line) # None THEN Some(k)
    ELSE FirstMatch(line, k + 1)

\* detect_header: the first grammar, in list order, that matches (Some of
\* its index in HEADER_PATTERNS), or None.
detect_header(line) == FirstMatch(line, 1)

----------------------------------------------------------------------------
(* datetime.strptime, on the directives app.py uses.  A numeric directive  *)
(* takes the digits up to its width; a literal follows every directive of  *)
(* these formats, so a shorter take cannot match.                          *)

\* Width and value range of the numeric directives (the regex of each in
\* the standard library: %d 1..31, %m 1..12, %H 0..23, %I 1..12, %M 0..59,
\* %S 0..61, %Y four digits, %y two digits).
Directive(tok) ==
    CASE tok = "%d" -> [min |-> 1, max |-> 2, lo |-> 1, hi |-> 31]
      [] tok = "%m" -> [min |-> 1, max |-> 2, lo |-> 1, hi |-> 12]
      [] tok = "%H" -> [min |-> 1, max |-> 2, lo |-> 0, hi |-> 23]
      [] tok = "%I" -> [min |-> 1, max |-> 2, lo |-> 1, hi |-> 12]
      [] tok = "%M" -> [min |-> 1, max |-> 2, lo |-> 0, hi |-> 59]
      [] tok = "%S" -> [min |-> 1, max |-> 2, lo |-> 0, hi |-> 61]
      [] tok = "%Y" -> [min |-> 4, max |-> 4, lo |-> 0, hi |-> 9999]
      [] tok = "%y" -> [min |-> 2, max |-> 2, lo |-> 0, hi |-> 99]

NumericDirectives == {"%d", "%m", "%H", "%I", "%M", "%S", "%Y", "%y"}

\* %y: values 69..99 are 1969..1999, values 0..68 are 2000..2068.
TwoDigitYear(v) == IF v <= 68 THEN 2000 + v ELSE 1900 + v

IsLeap(y) == (y % 4 = 0 /\ y % 100 # 0) \/ y % 400 = 0

DaysInMonth(y, m) ==
    IF m = 2 THEN (IF IsLeap(y) THEN 29 ELSE 28)
    ELSE IF m \in {4, 6, 9, 11} THEN 30 ELSE 31

\* The fields strptime starts from: 1900-01-01 00:00:00, no AM/PM seen.
StrpDefaults ==
    [year |-> 1900, month |-> 1, day |-> 1, hour |-> 0, minute |-> 0,
     second |-> 0, ampm |-> ""]

RECURSIVE StrpFrom(_, _, _, _)
\* The fields found matching format fmt on s from pos (Some), or None when
\* the data does not match the format or unconverted data remains.
StrpFrom(fmt, s, pos, acc) ==
    IF fmt = <<>> THEN (IF pos = Len(s) + 1 THEN Some(acc) ELSE None)
    ELSE
    LET tok  == Head(fmt)
        rest == Tail(fmt)
        avail == Len(s) - pos + 1
    IN  IF tok \in NumericDirectives THEN
            LET d == Directive(tok)
                lim == IF d.max > avail THEN avail ELSE d.max
                RECURSIVE Run(_)
                Run(c) == IF c < lim /\ s[pos + c] \in DigitChars
                          THEN Run(c + 1) ELSE c
                n == Run(0)
                v == ToInt(SubSeq(s, pos, pos + n - 1))
            IN  IF n < d.min \/ v < d.lo \/ v > d.hi THEN None
                ELSE StrpFrom(rest, s, pos + n,
                        CASE tok = "%d" -> [acc EXCEPT !.day = v]
                          [] tok = "%m" -> [acc EXCEPT !.month = v]
                          [] tok = "%H" -> [acc EXCEPT !.hour = v]
                          [] tok = "%I" -> [acc EXCEPT !.hour = v]
                          [] tok = "%M" -> [acc EXCEPT !.minute = v]
                          [] tok = "%S" -> [acc EXCEPT !.second = v]
                          [] tok = "%Y" -> [acc EXCEPT !.year = v]
                          [] tok = "%y" -> [acc EXCEPT !.year = TwoDigitYear(v)])
        ELSE IF tok = "%p" THEN
            IF avail >= 2 /\ SubSeq(s, pos, pos + 1) \in {<<"A", "M">>, <<"P", "M">>}
            THEN StrpFrom(rest, s, pos + 2,
                          [acc EXCEPT !.ampm = IF s[pos] = "A" THEN "AM" ELSE "PM"])
            ELSE None
        ELSE IF tok = " " THEN
            \* whitespace in a format stands for one or more whitespace
            LET RECURSIVE Run(_)
                Run(c) == IF c < avail /\ s[pos + c] \in SpaceChars
                          THEN Run(c + 1) ELSE c
                n == Run(0)
            IN  IF n = 0 THEN None ELSE StrpFrom(rest, s, pos + n, acc)
        ELSE IF avail >= 1 /\ s[pos] = tok THEN StrpFrom(rest, s, pos + 1, acc)
        ELSE None

\* datetime.strptime(s, fmt): the datetime (Some) or None for ValueError.
\* With %p the 12-hour value becomes 0..23; the date must exist and the
\* second be at most 59.
strptime(s, fmt) ==
    LET r == StrpFrom(fmt, s, 1, StrpDefaults)
    IN  IF r = None THEN None
        ELSE
        LET f == r[1]
            hour == IF f.ampm = "AM" THEN (IF f.hour = 12 THEN 0 ELSE f.hour)
                    ELSE IF f.ampm = "PM" THEN (IF f.hour = 12 THEN 12 ELSE f.hour + 12)
                    ELSE f.hour
        IN  IF f.year < 1 \/ f.day > DaysInMonth(f.year, f.month) \/ f.second > 59
            THEN None
            ELSE Some([year |-> f.year, month |-> f.month, day |-> f.day,
                       hour |-> hour, minute |-> f.minute, second |-> f.second])

----------------------------------------------------------------------------
(* robust_preprocess: the header fields of one line.                       *)

\* The dynamic time format of the iOS grammars (t_fmt is None): seconds
\* present or not, AM/PM present or not.
infer_t_fmt(time_raw) ==
    LET three == Contains(time_raw, <<":">>) /\ Len(Split(time_raw, ":")) = 3
        am == Contains(Upper(time_raw), <<"A", "M">>)
        pm == Contains(Upper(time_raw), <<"P", "M">>)
    IN  IF three /\ ~(am \/ pm) THEN HMS
        ELSE IF three /\ (am \/ pm) THEN IMSp
        ELSE IF ~am /\ ~pm THEN HM
        ELSE IMp

\* date_fmt_try.replace("%Y", "%y")
TwoDigitVariant(fmt) == [i \in 1..Len(fmt) |-> IF fmt[i] = "%Y" THEN "%y" ELSE fmt[i]]

\* The format the date is parsed with: the 4-digit-year format when the
\* last "/"-separated segment has 4 characters, else its %y variant.
date_fmt_for(date_raw, date_fmt_try) ==
    LET parts == Split(date_raw, "/")
    IN  IF Len(parts[Len(parts)]) = 4 THEN date_fmt_try
        ELSE TwoDigitVariant(date_fmt_try)

\* One pass of the try block: date and time parsed and combined (Some), or
\* None when either strptime raises.
try_parse(date_raw, time_raw, date_fmt_try, t_fmt) ==
    LET d == strptime(date_raw, date_fmt_for(date_raw, date_fmt_try))
        t == strptime(Upper(time_raw), t_fmt)
    IN  IF d = None \/ t = None THEN None
        ELSE Some([year |-> d[1].year, month |-> d[1].month, day |-> d[1].day,
                   hour |-> t[1].hour, minute |-> t[1].minute,
                   second |-> t[1].second])

\* Variant that tries month/day before the grammar's day/month.
date_formats_month_first(d_fmt) == <<MDY, d_fmt>>

\* The order the date formats are tried in: the grammar's, then month/day.
date_formats(d_fmt) == <<d_fmt, MDY>>

RECURSIVE try_formats(_, _, _, _)
\* The for loop over the date formats: the first success, else None.
try_formats(fmts, date_raw, time_raw, t_fmt) ==
    IF fmts = <<>> THEN None
    ELSE LET r == try_parse(date_raw, time_raw, Head(fmts), t_fmt)
         IN  IF r # None THEN r
             ELSE try_formats(Tail(fmts), date_raw, time_raw, t_fmt)

\* parsed_dt of a header line
parse_dt(date_raw, time_raw, d_fmt, t_fmt) ==
    try_formats(date_formats(d_fmt), date_raw, time_raw, t_fmt)

\* The captures and parsed timestamp of a line that grammar k matches.
header_fields(ln, k) ==
    LET g == HEADER_PATTERNS[k]
        m == ReMatch(g.pat, ln)
        date_raw == Group(ln, m, 1)
        time_raw == Group(ln, m, 2)
        t_fmt == IF g.t_fmt = None THEN infer_t_fmt(time_raw) ELSE g.t_fmt[1]
    IN  [date_raw |-> date_raw, time_raw |-> time_raw,
         user_raw |-> Group(ln, m, 3), msg |-> Group(ln, m, 4),
         t_fmt |-> t_fmt,
         parsed_dt |-> parse_dt(date_raw, time_raw, g.d_fmt, t_fmt)]

group_notification ==
    <<"g", "r", "o", "u", "p", "_", "n", "o", "t", "i", "f", "i", "c", "a",
      "t", "i", "o", "n">>

\* Variant of the initial pending message that carries a timestamp.
InitialCurDated ==
    [date |-> Some([year |-> 1900, month |-> 1, day |-> 1, hour |-> 0,
                    minute |-> 0, second |-> 0]),
     time |-> Some([year |-> 1900, month |-> 1, day |-> 1, hour |-> 0,
                    minute |-> 0, second |-> 0]),
     user |-> None, message |-> <<>>]

\* cur before the first header
InitialCur == [date |-> None, time |-> None, user |-> None, message |-> <<>>]

\* cur = {...} for a header line
new_cur(h) ==
    [date |-> h.parsed_dt, time |-> h.parsed_dt,
     user |-> IF h.user_raw # <<>> THEN Some(Strip(h.user_raw)) ELSE None,
     message |-> IF h.msg # <<>> THEN <<h.msg>> ELSE <<>>]

\* Variant of flush that puts the record first instead of last.
flush_prepend(c, recs) ==
    IF c.date # None /\ c.time # None
    THEN LET msg == Strip(Join(c.message))
             user == IF c.user = None THEN group_notification
                     ELSE IF Strip(c.user[1]) # <<>> THEN Strip(c.user[1])
                     ELSE group_notification
         IN  <<[datetime |-> c.date[1], time_obj |-> c.time[1],
                user |-> user, message |-> msg]>> \o recs
    ELSE recs

\* Variant of flush without the fallback for an empty author.
flush_no_fallback(c, recs) ==
    IF c.date # None /\ c.time # None
    THEN LET msg == Strip(Join(c.message))
             user == IF c.user = None THEN group_notification ELSE Strip(c.user[1])
         IN  Append(recs, [datetime |-> c.date[1], time_obj |-> c.time[1],
                           user |-> user, message |-> msg])
    ELSE recs

\* flush(): the records after flushing the pending message c.
flush(c, recs) ==
    IF c.date # None /\ c.time # None
    THEN LET msg == Strip(Join(c.message))
             user == IF c.user = None THEN group_notification
                     ELSE IF Strip(c.user[1]) # <<>> THEN Strip(c.user[1])
                     ELSE group_notification
         IN  Append(recs, [datetime |-> c.date[1], time_obj |-> c.time[1],
                           user |-> user, message |-> msg])
    ELSE recs

\* pd.DataFrame()
EmptyDataFrame == [columns |-> {}, rows |-> <<>>]

\* The columns of the table robust_preprocess builds.
TableColumns ==
    {"datetime", "time_obj", "user", "message", "date", "year", "month_num",
     "month", "day_name", "only_date"}

\* The table built from the records, with the derived calendar fields.
build_table(recs) ==
    [columns |-> TableColumns,
     rows |-> [i \in 1..Len(recs) |->
        [datetime |-> recs[i].datetime, time_obj |-> recs[i].time_obj,
         user |-> recs[i].user, message |-> recs[i].message,
         date |-> <<recs[i].datetime.year, recs[i].datetime.month, recs[i].datetime.day>>,
         year |-> recs[i].datetime.year, month_num |-> recs[i].datetime.month,
         only_date |-> <<recs[i].datetime.year, recs[i].datetime.month,
                         recs[i].datetime.day>>]]]

\* The lines kept by "if ln.strip()".
RECURSIVE non_blank(_)
non_blank(ls) ==
    IF ls = <<>> THEN <<>>
    ELSE IF Strip(Head(ls)) # <<>> THEN <<Head(ls)>> \o non_blank(Tail(ls))
    ELSE non_blank(Tail(ls))

----------------------------------------------------------------------------
(* helper.py: what each helper does with the table it is given, as far as  *)
(* its guards and column accesses go.  The outcome is "raised" (KeyError   *)
(* on a missing column), "empty" (the empty or zeroed result of a guard)   *)
(* or "data" (a result computed from at least one row).                    *)

Overall == <<"O", "v", "e", "r", "a", "l", "l">>

\* df.empty: no rows or no columns.
IsEmpty(df) == df.rows = <<>> \/ df.columns = {}

\* df[df['user'] == selected_user]: the rows, with the columns kept.
RECURSIVE rows_of_user(_, _)
rows_of_user(rows, u) ==
    IF rows = <<>> THEN <<>>
    ELSE IF Head(rows).user = u THEN <<Head(rows)>> \o rows_of_user(Tail(rows), u)
    ELSE rows_of_user(Tail(rows), u)

\* use_df = df if selected_user == 'Overall' else df[df['user'] == selected_user]
\* (Some), or None when df['user'] raises KeyError.
use_df(selected_user, df) ==
    IF selected_user = Overall THEN Some(df)
    ELSE IF "user" \notin df.columns THEN None
    ELSE Some([columns |-> df.columns, rows |-> rows_of_user(df.rows, selected_user)])

\* A helper that guards with use_df.empty after selecting the rows and then
\* reads the columns cols.
guarded_after_select(selected_user, df, cols) ==
    LET u == use_df(selected_user, df)
    IN  IF u = None THEN "raised"
        ELSE IF IsEmpty(u[1]) THEN "empty"
        ELSE IF cols \subseteq u[1].columns THEN "data" ELSE "raised"

fetch_stats(selected_user, df) ==
    IF IsEmpty(df) THEN "empty"
    ELSE guarded_after_select(selected_user, df, {"message"})

most_busy_users(df) ==
    IF IsEmpty(df) THEN "empty"
    ELSE IF "user" \in df.columns THEN "data" ELSE "raised"

\* create_wordcloud and most_common_words select the rows and read
\* use_df['user'] and temp['message'] with no guard on emptiness.
unguarded_words(selected_user, df) ==
    LET u == use_df(selected_user, df)
    IN  IF u = None THEN "raised"
        ELSE IF "user" \notin u[1].columns THEN "raised"
        ELSE IF "message" \notin u[1].columns THEN "raised"
        ELSE IF \E i \in 1..Len(u[1].rows) :
                    /\ u[1].rows[i].user # group_notification
                    /\ Strip(u[1].rows[i].message) # <<>>
             THEN "data" ELSE "empty"

create_wordcloud(selected_user, df) == unguarded_words(selected_user, df)

most_common_words(selected_user, df) == unguarded_words(selected_user, df)

\* No character of the model's lines is an emoji: the counter stays empty.
emoji_helper(selected_user, df) ==
    IF guarded_after_select(selected_user, df, {"message"}) = "data" THEN "empty"
    ELSE guarded_after_select(selected_user, df, {"message"})

monthly_timeline(selected_user, df) ==
    guarded_after_select(selected_user, df, {"year", "month_num", "month", "message"})

daily_timeline(selected_user, df) ==
    guarded_after_select(selected_user, df, {"only_date", "message"})

week_activity_map(selected_user, df) ==
    guarded_after_select(selected_user, df, {"day_name"})

month_activity_map(selected_user, df) ==
    guarded_after_select(selected_user, df, {"month"})

activity_heatmap(selected_user, df) ==
    LET u == use_df(selected_user, df)
    IN  IF u = None THEN "raised"
        ELSE IF IsEmpty(u[1]) THEN "empty"
        ELSE IF "period" \notin u[1].columns /\ "datetime" \notin u[1].columns
                /\ "hour" \notin u[1].columns THEN "empty"
        ELSE IF {"day_name", "message"} \subseteq u[1].columns THEN "data"
        ELSE "raised"

Helpers ==
    {"fetch_stats", "most_busy_users", "create_wordcloud", "most_common_words",
     "emoji_helper", "monthly_timeline", "daily_timeline", "week_activity_map",
     "month_activity_map", "activity_heatmap"}

helper_outcome(fn, selected_user, df) ==
    CASE fn = "fetch_stats"        -> fetch_stats(selected_user, df)
      [] fn = "most_busy_users"    -> most_busy_users(df)
      [] fn = "create_wordcloud"   -> create_wordcloud(selected_user, df)
      [] fn = "most_common_words"  -> most_common_words(selected_user, df)
      [] fn = "emoji_helper"       -> emoji_helper(selected_user, df)
      [] fn = "monthly_timeline"   -> monthly_timeline(selected_user, df)
      [] fn = "daily_timeline"     -> daily_timeline(selected_user, df)
      [] fn = "week_activity_map"  -> week_activity_map(selected_user, df)
      [] fn = "month_activity_map" -> month_activity_map(selected_user, df)
      [] fn = "activity_heatmap"   -> activity_heatmap(selected_user, df)

----------------------------------------------------------------------------
(* The input lines the documents are drawn from.                           *)

\* "5/6/2025, 9:05 - Al: Hi"
LnAndroid ==
    <<"5", "/", "6", "/", "2", "0", "2", "5", ",", " ", "9", ":", "0", "5",
      " ", "-", " ", "A", "l", ":", " ", "H", "i">>

\* "[7/8/25, 9:05:03 pm] Bo: "
LnIosEmpty ==
    <<"[", "7", "/", "8", "/", "2", "5", ",", " ", "9", ":", "0", "5", ":",
      "0", "3", " ", "p", "m", "]", " ", "B", "o", ":", " ">>

\* "31/31/2025, 9:05 - Al: No"
LnBadDate ==
    <<"3", "1", "/", "3", "1", "/", "2", "0", "2", "5", ",", " ", "9", ":",
      "0", "5", " ", "-", " ", "A", "l", ":", " ", "N", "o">>

\* "5/6/2025, 9:06 -  : Hi"
LnNoAuthor ==
    <<"5", "/", "6", "/", "2", "0", "2", "5", ",", " ", "9", ":", "0", "6",
      " ", "-", " ", " ", ":", " ", "H", "i">>

\* "yo"
LnText ==
    <<"y", "o">>

\* " x "
LnPadded ==
    <<" ", "x", " ">>

\* " "
LnBlank ==
    <<" ">>

\* "5/6/2025, 9:05 - Al left"
LnNotice ==
    <<"5", "/", "6", "/", "2", "0", "2", "5", ",", " ", "9", ":", "0", "5",
      " ", "-", " ", "A", "l", " ", "l", "e", "f", "t">>

ScanPool ==
    {LnAndroid, LnIosEmpty, LnBadDate, LnNoAuthor, LnText, LnPadded, LnBlank}

\* "25/12/2025, 9:05 - Al: a"
DtDayMonth ==
    <<"2", "5", "/", "1", "2", "/", "2", "0", "2", "5", ",", " ", "9", ":",
      "0", "5", " ", "-", " ", "A", "l", ":", " ", "a">>

\* "12/25/2025, 9:05 - Al: b"
DtMonthDay ==
    <<"1", "2", "/", "2", "5", "/", "2", "0", "2", "5", ",", " ", "9", ":",
      "0", "5", " ", "-", " ", "A", "l", ":", " ", "b">>

\* "29/2/2025, 9:05 - Al: c"
DtFeb29 ==
    <<"2", "9", "/", "2", "/", "2", "0", "2", "5", ",", " ", "9", ":", "0",
      "5", " ", "-", " ", "A", "l", ":", " ", "c">>

\* "[29/2/2024, 23:59:59] Bo: d"
DtLeap ==
    <<"[", "2", "9", "/", "2", "/", "2", "0", "2", "4", ",", " ", "2", "3",
      ":", "5", "9", ":", "5", "9", "]", " ", "B", "o", ":", " ", "d">>

\* "5/6/25, 9:05 pm - Al: e"
DtYear25 ==
    <<"5", "/", "6", "/", "2", "5", ",", " ", "9", ":", "0", "5", " ", "p",
      "m", " ", "-", " ", "A", "l", ":", " ", "e">>

\* "5/6/99, 12:05 AM - Al: f"
DtYear99 ==
    <<"5", "/", "6", "/", "9", "9", ",", " ", "1", "2", ":", "0", "5", " ",
      "A", "M", " ", "-", " ", "A", "l", ":", " ", "f">>

\* "[5/6/123, 9:05] Bo: g"
DtYear123 ==
    <<"[", "5", "/", "6", "/", "1", "2", "3", ",", " ", "9", ":", "0", "5",
      "]", " ", "B", "o", ":", " ", "g">>

\* "5/6/0000, 9:05 - Al: h"
DtYear0 ==
    <<"5", "/", "6", "/", "0", "0", "0", "0", ",", " ", "9", ":", "0", "5",
      " ", "-", " ", "A", "l", ":", " ", "h">>

\* "[12/25/24, 12:05:03 PM] Bo: i"
DtMonthDay24 ==
    <<"[", "1", "2", "/", "2", "5", "/", "2", "4", ",", " ", "1", "2", ":",
      "0", "5", ":", "0", "3", " ", "P", "M", "]", " ", "B", "o", ":", " ",
      "i">>

\* "[5/6/2025, 9:05PM] Bo: j"
DtNoSpacePm ==
    <<"[", "5", "/", "6", "/", "2", "0", "2", "5", ",", " ", "9", ":", "0",
      "5", "P", "M", "]", " ", "B", "o", ":", " ", "j">>

\* "5/6/2025, 25:05 - Al: k"
DtHour25 ==
    <<"5", "/", "6", "/", "2", "0", "2", "5", ",", " ", "2", "5", ":", "0",
      "5", " ", "-", " ", "A", "l", ":", " ", "k">>

\* "5/6/2025, 13:05 pm - Al: l"
DtHour13Pm ==
    <<"5", "/", "6", "/", "2", "0", "2", "5", ",", " ", "1", "3", ":", "0",
      "5", " ", "p", "m", " ", "-", " ", "A", "l", ":", " ", "l">>

\* "[5/6/2025, 9:05:60] Bo: m"
DtSecond60 ==
    <<"[", "5", "/", "6", "/", "2", "0", "2", "5", ",", " ", "9", ":", "0",
      "5", ":", "6", "0", "]", " ", "B", "o", ":", " ", "m">>

\* "5/6/2025, 9:05 - pm - Al: n"
DtPmAuthor ==
    <<"5", "/", "6", "/", "2", "0", "2", "5", ",", " ", "9", ":", "0", "5",
      " ", "-", " ", "p", "m", " ", "-", " ", "A", "l", ":", " ", "n">>

\* "[5/6/2025, 9:05] Bo: 9:05 PM] x: o"
DtTimeInBody ==
    <<"[", "5", "/", "6", "/", "2", "0", "2", "5", ",", " ", "9", ":", "0",
      "5", "]", " ", "B", "o", ":", " ", "9", ":", "0", "5", " ", "P", "M",
      "]", " ", "x", ":", " ", "o">>

DatePool ==
    {LnAndroid, LnNotice, DtDayMonth, DtMonthDay, DtFeb29, DtLeap, DtYear25, DtYear99, DtYear123, DtYear0, DtMonthDay24, DtNoSpacePm, DtHour25, DtHour13Pm, DtSecond60, DtPmAuthor, DtTimeInBody}


\* The longest document of each specification, in lines.
MaxLines == 4
MaxDateLines == 2
MaxHelperLines == 2

Docs(pool, n) == UNION {[1..k -> pool] : k \in 0..n}

\* The users a helper is called with.
SelectedUsers == {Overall, <<"A", "l">>}

NoCall == [fn |-> "", selected_user |-> <<>>, outcome |-> ""]

----------------------------------------------------------------------------
(* The state machine: robust_preprocess line by line, then helper calls    *)
(* on the table it returned.                                               *)

InitWith(docs) ==
    /\ text \in docs
    /\ pc = "start"
    /\ lines = <<>>
    /\ idx = 1
    /\ cur = InitialCur
    /\ records = <<>>
    /\ table = EmptyDataFrame
    /\ call = NoCall

Init == InitWith(Docs(ScanPool, MaxLines))

InitDates == InitWith(Docs(DatePool, MaxDateLines))

InitHelpers == InitWith(Docs(ScanPool, MaxHelperLines))

\* Lines 67-85: drop the blank lines; no line left returns pd.DataFrame().
Start ==
    /\ pc = "start"
    /\ lines' = non_blank(text)
    /\ IF lines' = <<>>
       THEN pc' = "done" /\ table' = EmptyDataFrame
       ELSE pc' = "scan" /\ table' = table
    /\ idx' = 1
    /\ cur' = InitialCur
    /\ records' = <<>>
    /\ UNCHANGED <<text, call>>

\* Variant of ScanHeader that skips a header line whose timestamp does not
\* resolve, leaving the pending message in place.
ScanHeaderSkipsUnresolved ==
    /\ pc = "scan"
    /\ idx <= Len(lines)
    /\ detect_header(lines[idx]) # None
    /\ LET h == header_fields(lines[idx], detect_header(lines[idx])[1])
       IN  IF h.parsed_dt = None
           THEN UNCHANGED <<cur, records>>
           ELSE records' = flush(cur, records) /\ cur' = new_cur(h)
    /\ idx' = idx + 1
    /\ UNCHANGED <<text, pc, lines, table, call>>

\* Lines 98-129: a header line flushes the pending message and starts one.
ScanHeader ==
    /\ pc = "scan"
    /\ idx <= Len(lines)
    /\ detect_header(lines[idx]) # None
    /\ records' = flush(cur, records)
    /\ cur' = new_cur(header_fields(lines[idx], detect_header(lines[idx])[1]))
    /\ idx' = idx + 1
    /\ UNCHANGED <<text, pc, lines, table, call>>

\* Lines 130-136: any other line is appended to the pending message.
ScanContinuation ==
    /\ pc = "scan"
    /\ idx <= Len(lines)
    /\ detect_header(lines[idx]) = None
    /\ cur' = [cur EXCEPT !.message = Append(@, lines[idx])]
    /\ idx' = idx + 1
    /\ UNCHANGED <<text, pc, lines, records, table, call>>

\* Variant of Finish without the "if not records" guard.
FinishAlwaysBuilds ==
    /\ pc = "scan"
    /\ idx > Len(lines)
    /\ records' = flush(cur, records)
    /\ table' = build_table(records')
    /\ pc' = "done"
    /\ UNCHANGED <<text, lines, idx, cur, call>>

\* Lines 138-155: the last flush, then the table.
Finish ==
    /\ pc = "scan"
    /\ idx > Len(lines)
    /\ records' = flush(cur, records)
    /\ table' = IF records' = <<>> THEN EmptyDataFrame ELSE build_table(records')
    /\ pc' = "done"
    /\ UNCHANGED <<text, lines, idx, cur, call>>

\* A helper of helper.py called with the returned table.
CallHelper ==
    /\ pc = "done"
    /\ \E fn \in Helpers, u \in SelectedUsers :
          call' = [fn |-> fn, selected_user |-> u,
                   outcome |-> helper_outcome(fn, u, table)]
    /\ UNCHANGED <<text, pc, lines, idx, cur, records, table>>

Next == Start \/ ScanHeader \/ ScanContinuation \/ Finish

NextHelpers == Next \/ CallHelper

Spec == Init /\ [][Next]_vars

SpecDates == InitDates /\ [][Next]_vars

SpecHelpers == InitHelpers /\ [][NextHelpers]_vars

----------------------------------------------------------------------------
(* Vocabulary of the properties: what a sequence of lines says by itself.  *)

\* What detect_header and the header parse give for each line of the pools
\* (computed once: the properties look lines up here).
HeaderTable ==
    [ln \in ScanPool \cup DatePool |->
        LET k == detect_header(ln)
        IN  IF k = None THEN [is |-> FALSE, k |-> k, f |-> <<>>]
            ELSE [is |-> TRUE, k |-> k, f |-> header_fields(ln, k[1])]]

IsHeader(ln) == HeaderTable[ln].is

Fields(ln) == HeaderTable[ln].f

Resolves(ln) == IsHeader(ln) /\ Fields(ln).parsed_dt # None

HeaderIdx(ls) == {i \in 1..Len(ls) : IsHeader(ls[i])}

ResolvingIdx(ls) == {i \in 1..Len(ls) : Resolves(ls[i])}

MinOf(S) == CHOOSE x \in S : \A y \in S : x <= y

MaxOf(S) == CHOOSE x \in S : \A y \in S : y <= x

RECURSIVE Ascending(_)
\* The members of a set of numbers in increasing order.
Ascending(S) == IF S = {} THEN <<>> ELSE <<MinOf(S)>> \o Ascending(S \ {MinOf(S)})

\* The lines after header i up to the next header line or the end.
Continuation(ls, i) ==
    LET later == {j \in HeaderIdx(ls) : j > i}
    IN  SubSeq(ls, i + 1, IF later = {} THEN Len(ls) ELSE MinOf(later) - 1)

\* The body the header at i and its continuation lines conts make.
BodyOf(ln, conts) == Strip(Join(<<Fields(ln).msg>> \o conts))

\* The author a header line gives its record.
AuthorOf(ln) ==
    IF Strip(Fields(ln).user_raw) = <<>> THEN group_notification
    ELSE Strip(Fields(ln).user_raw)

\* How many of the non-blank lines the scan has gone through.
Processed == IF pc = "scan" THEN idx - 1 ELSE Len(lines)

\* The resolving headers whose record is out: all that the scan has passed,
\* but the one still pending.
EmittedIdx ==
    LET seen == {i \in HeaderIdx(lines) : i <= Processed}
    IN  IF pc = "scan"
        THEN {i \in ResolvingIdx(lines) : i <= Processed /\ i < MaxOf(seen)}
        ELSE ResolvingIdx(lines)

----------------------------------------------------------------------------
(* C1: at every point of the scan the records are, one to one and in       *)
(* order, the resolving header lines already flushed: as many records as   *)
(* such headers, the i-th record with the timestamp and author of the i-th *)
(* of them, and a header directly followed by a header gives a record      *)
(* whose body is its inline text alone.  The records of a state are thus   *)
(* fixed by the lines gone through, so a later line changes none of them;  *)
(* at the end there is one record per resolving header line of the text.   *)
C1_RecordsFollowHeaders ==
    LET E == Ascending(EmittedIdx)
    IN  /\ Len(records) = Len(E)
        /\ \A j \in 1..Len(E) :
              /\ j <= Len(records)
              /\ Some(records[j].datetime) = Fields(lines[E[j]]).parsed_dt
              /\ records[j].user = AuthorOf(lines[E[j]])
              /\ (E[j] + 1 \in HeaderIdx(lines)
                    => records[j].message = Strip(Fields(lines[E[j]]).msg))
        /\ (pc = "done" => Len(records) = Cardinality(ResolvingIdx(text)))

\* C1 witness: two header lines in a row, both resolving, gave two records
\* with different timestamps.
C1_Witness ==
    /\ pc = "done"
    /\ Len(text) >= 2
    /\ Resolves(text[1]) /\ Resolves(text[2])
    /\ Len(records) = 2
    /\ records[1].datetime # records[2].datetime

(* C2: the body of a record is its header's inline text followed by every  *)
(* line of the text between that header and the next header line (or the   *)
(* end), blank and whitespace-only lines included, in order, joined by     *)
(* newline and trimmed.                                                    *)
C2_BodyKeepsEveryLine ==
    pc = "done" =>
        LET R == Ascending(ResolvingIdx(text))
        IN  \A j \in 1..Len(R) :
                /\ j <= Len(records)
                /\ records[j].message = BodyOf(text[R[j]], Continuation(text, R[j]))

(* C3: a line before the first header line is in no record and is no       *)
(* record: while no header has been gone through there is no record and    *)
(* nothing pending that a flush would emit; the message pending after the  *)
(* first header holds that header's inline text and the lines after it     *)
(* only; and the first record's body is made of those alone.               *)
C3_PreambleDropped ==
    LET seen == {i \in HeaderIdx(lines) : i <= Processed}
    IN  /\ (pc # "start" /\ seen = {}) => (records = <<>> /\ cur.date = None)
        /\ (pc = "scan" /\ Cardinality(seen) = 1) =>
              LET f == MinOf(seen)
                  inline == IF Fields(lines[f]).msg = <<>> THEN <<>>
                            ELSE <<Fields(lines[f]).msg>>
              IN  /\ records = <<>>
                  /\ cur.message = inline \o SubSeq(lines, f + 1, Processed)
        /\ (pc = "done" /\ seen # {} /\ Resolves(lines[MinOf(seen)])) =>
              /\ records # <<>>
              /\ records[1].message =
                    BodyOf(lines[MinOf(seen)], Continuation(lines, MinOf(seen)))
        /\ (pc = "done") => Len(records) = Cardinality(ResolvingIdx(lines))

\* C3 witness: the text began with a non-blank line that is no header, and
\* a record came out of a later header.
C3_Witness ==
    /\ pc = "done"
    /\ Len(lines) >= 2
    /\ ~IsHeader(lines[1])
    /\ lines[1] = text[1]
    /\ records # <<>>

\* The position among the records of the resolving header at line h.
RecordOf(h) == Cardinality({i \in ResolvingIdx(lines) : i <= h})

(* C4: a header line whose date/time parses under neither date order gets  *)
(* no record and the scan goes on: while it is the last header gone        *)
(* through nothing is pending for a flush and the records are those of the *)
(* resolving headers before it; at the end the record of the header before *)
(* it has that header's own lines as body and the record of the header     *)
(* after it its own, so the lines after the unresolvable header are in     *)
(* neither.                                                                *)
C4_UnresolvableHeaderDropped ==
    \A u \in HeaderIdx(lines) : ~Resolves(lines[u]) =>
          LET before == {i \in HeaderIdx(lines) : i < u}
              after  == {i \in HeaderIdx(lines) : i > u}
              seen   == {i \in HeaderIdx(lines) : i <= Processed}
          IN  /\ (pc = "scan" /\ seen # {} /\ MaxOf(seen) = u) =>
                    /\ cur.date = None
                    /\ Len(records) = Cardinality({i \in ResolvingIdx(lines) : i < u})
              /\ (pc = "done") =>
                    /\ Len(records) = Cardinality(ResolvingIdx(lines))
                    /\ (before # {} /\ Resolves(lines[MaxOf(before)])) =>
                          records[RecordOf(MaxOf(before))].message =
                              BodyOf(lines[MaxOf(before)],
                                     SubSeq(lines, MaxOf(before) + 1, u - 1))
                    /\ (after # {} /\ Resolves(lines[MinOf(after)])) =>
                          records[RecordOf(MinOf(after))].message =
                              BodyOf(lines[MinOf(after)],
                                     Continuation(lines, MinOf(after)))

\* C4 witness: an unresolvable header line came after a resolving one, was
\* followed by a line that is no header and then by a resolving header; two
\* records came out.
C4_Witness ==
    /\ pc = "done"
    /\ Len(lines) = 4
    /\ Resolves(lines[1])
    /\ IsHeader(lines[2]) /\ ~Resolves(lines[2])
    /\ ~IsHeader(lines[3])
    /\ Resolves(lines[4])
    /\ Len(records) = 2

(* C5: no record has an empty or whitespace-only author: the record of a   *)
(* header whose author capture is empty after trimming has the author      *)
(* group_notification, and every other record has the capture trimmed.     *)
C5_AuthorOrSentinel ==
    LET E == Ascending(EmittedIdx)
    IN  \A j \in 1..Len(records) :
            /\ records[j].user # <<>>
            /\ Strip(records[j].user) = records[j].user
            /\ j <= Len(E)
            /\ LET raw == Fields(lines[E[j]]).user_raw
               IN  IF Strip(raw) = <<>>
                   THEN records[j].user = group_notification
                   ELSE records[j].user = Strip(raw)

\* C5 witness: a record came out of a header whose author capture is a
\* single space, and one out of a header with a name.
C5_Witness ==
    /\ pc = "done"
    /\ Len(records) = 2
    /\ Len(lines) = 2
    /\ Fields(lines[1]).user_raw = <<" ">>
    /\ records[1].user = group_notification
    /\ records[2].user = <<"A", "l">>

(* C8: robust_preprocess has no state other than its start, its scan over  *)
(* the lines and its return, and it returns the table with no rows and no  *)
(* columns when the text has no non-blank line, or no header line, or only *)
(* header lines that do not resolve.                                       *)
C8_EmptyTable ==
    /\ pc \in {"start", "scan", "done"}
    /\ (pc = "scan" => idx \in 1..(Len(lines) + 1))
    /\ (pc = "done" /\ (non_blank(text) = <<>> \/ HeaderIdx(text) = {}
                         \/ ResolvingIdx(text) = {}))
          => (table = EmptyDataFrame /\ records = <<>>)

\* C8 witness: a text whose only header line does not resolve, with a line
\* after it, returned the empty table.
C8_Witness ==
    /\ pc = "done"
    /\ Len(text) >= 2
    /\ IsHeader(text[1]) /\ ~Resolves(text[1])
    /\ HeaderIdx(text) = {1}
    /\ Strip(text[2]) # <<>>
    /\ table = EmptyDataFrame

----------------------------------------------------------------------------
(* Calendar reading of a date capture a/b/y, apart from strptime.          *)

DateParts(ln) == Split(Fields(ln).date_raw, "/")

\* The year a last segment of 2 or 4 digits stands for under the format
\* the code picks for it.
YearRead(seg) == IF Len(seg) = 4 THEN ToInt(seg) ELSE TwoDigitYear(ToInt(seg))

ValidDate(y, m, d) == y >= 1 /\ m \in 1..12 /\ d \in 1..DaysInMonth(y, m)

\* The header lines whose time capture parses under the time format chosen
\* for the line.
TimeTable ==
    {ln \in ScanPool \cup DatePool :
        /\ IsHeader(ln)
        /\ strptime(Upper(Fields(ln).time_raw), Fields(ln).t_fmt) # None}

TimeParses(ln) == ln \in TimeTable

(* C6: a header line whose year segment has fewer than 4 digits resolves   *)
(* (when its time parses and its day and month are a date of every year)   *)
(* and the year of its timestamp lies in 2000..2099.                       *)
C6_ShortYearIn2000s ==
    pc = "done" =>
        \A i \in HeaderIdx(lines) :
            LET parts == DateParts(lines[i])
                dt == Fields(lines[i]).parsed_dt
            IN  Len(parts[3]) < 4 =>
                    /\ dt # None => dt[1].year \in 2000..2099
                    /\ (TimeParses(lines[i]) /\ ToInt(parts[1]) \in 1..28
                          /\ ToInt(parts[2]) \in 1..12) => dt # None

(* C7: the date a/b/y of a header line whose time parses is read as day a, *)
(* month b whenever that is a date of the calendar, as month a, day b when *)
(* it is not and that reading is, and not at all otherwise; each header    *)
(* line is read by itself, and the records carry these readings.           *)
C7_DayMonthFirst ==
    /\ \A i \in HeaderIdx(lines) :
          LET parts == DateParts(lines[i])
              a == ToInt(parts[1])
              b == ToInt(parts[2])
              y == YearRead(parts[3])
              yearOk == Len(parts[3]) \in {2, 4}
              dt == Fields(lines[i]).parsed_dt
          IN  IF TimeParses(lines[i]) /\ yearOk /\ ValidDate(y, b, a)
              THEN dt # None /\ dt[1].day = a /\ dt[1].month = b /\ dt[1].year = y
              ELSE IF TimeParses(lines[i]) /\ yearOk /\ ValidDate(y, a, b)
              THEN dt # None /\ dt[1].month = a /\ dt[1].day = b /\ dt[1].year = y
              ELSE dt = None
    /\ pc = "done" =>
          LET R == Ascending(ResolvingIdx(lines))
          IN  /\ Len(records) = Len(R)
              /\ \A j \in 1..Len(R) :
                    Some(records[j].datetime) = Fields(lines[R[j]]).parsed_dt

\* C7 witness: of two header lines of one text the first was read as
\* day/month (25/12) and the second as month/day (12/25).
C7_Witness ==
    /\ pc = "done"
    /\ Len(lines) = 2
    /\ Len(records) = 2
    /\ ToInt(DateParts(lines[1])[1]) = 25 /\ records[1].datetime.day = 25
    /\ ToInt(DateParts(lines[2])[1]) = 12 /\ records[2].datetime.month = 12
    /\ records[2].datetime.day = 25

\* The grammars of HEADER_PATTERNS that match each line of the pools.
MatchTable ==
    [ln \in ScanPool \cup DatePool |->
        {k \in 1..Len(HEADER_PATTERNS) : ReMatch(HEADER_PATTERNS[k].pat, ln) # None}]

Matching(line) == MatchTable[line]

(* C9: at most one of the four grammars matches a line, so detect_header   *)
(* returns the one grammar that matches whatever the order of the list; a  *)
(* line that a 12-hour grammar matches is matched by no 24-hour grammar.   *)
C9_OneGrammarPerLine ==
    \A i \in 1..Len(text) :
        LET found == HeaderTable[text[i]].k
        IN  /\ Cardinality(Matching(text[i])) <= 1
            /\ found # None => Matching(text[i]) = {found[1]}
            /\ found = None => Matching(text[i]) = {}

\* C9 witness: a text with a line of the Android 12-hour grammar and a line
\* of the Android 24-hour grammar, both gone through.
C9_Witness ==
    /\ pc = "done"
    /\ Len(text) = 2
    /\ Matching(text[1]) = {2}
    /\ Matching(text[2]) = {1}
    /\ Len(records) = 2

(* C10: a helper called with the table without rows and columns gives an   *)
(* empty or zeroed result and does not raise, whatever the selected user.  *)
C10_HelpersTolerateEmptyTable ==
    (call.fn # "" /\ table = EmptyDataFrame) => call.outcome = "empty"

----------------------------------------------------------------------------
(* The application flow of app.py for an uploaded file: the optional user  *)
(* preprocessor, the fallback to robust_preprocess, the final validation   *)
(* and the analysis steps.  pc is "upload" at the start, then the states   *)
(* of robust_preprocess when it runs, "done" when df is set, "stopped"     *)
(* after st.stop(), "ui" when the user list is shown, the name of the next *)
(* helper during the analysis and "rendered" after the last one.           *)

MaxAppLines == 2

\* Tables a user preprocessor may return.
UserValidTable ==
    [columns |-> {"user", "message"},
     rows |-> <<[user |-> <<"A", "l">>, message |-> <<"H", "i">>]>>]

UserNoRowsTable == [columns |-> {"user", "message"}, rows |-> <<>>]

UserNoUserColumnTable ==
    [columns |-> {"message"}, rows |-> <<[message |-> <<"H", "i">>]>>]

\* What the user preprocessor does: the module is absent, preprocess
\* raises, it returns something that is no DataFrame, or it returns a table.
UserPreOutcomes ==
    {[kind |-> "absent", df |-> EmptyDataFrame],
     [kind |-> "raised", df |-> EmptyDataFrame],
     [kind |-> "not_a_table", df |-> EmptyDataFrame],
     [kind |-> "table", df |-> EmptyDataFrame],
     [kind |-> "table", df |-> UserNoRowsTable],
     [kind |-> "table", df |-> UserNoUserColumnTable],
     [kind |-> "table", df |-> UserValidTable]}

RequiredColumns == {"user", "message"}

\* Line 205: the universal parser is needed.
needs_fallback(o) ==
    \/ o.kind # "table"
    \/ IsEmpty(o.df)
    \/ ~(RequiredColumns \subseteq o.df.columns)

\* build_user_list: 'Overall' and the users of the table other than
\* group_notification and the empty name.
build_user_list(df) ==
    {Overall} \cup
    {Strip(df.rows[i].user) : i \in {j \in 1..Len(df.rows) :
        /\ Strip(df.rows[j].user) # <<>>
        /\ Strip(df.rows[j].user) # group_notification}}

\* The order of the analysis steps.
AnalysisOrder ==
    <<"fetch_stats", "monthly_timeline", "daily_timeline", "week_activity_map",
      "month_activity_map", "activity_heatmap", "most_busy_users",
      "create_wordcloud", "most_common_words", "emoji_helper">>

\* The step after helper fn.
next_step(fn) ==
    LET i == CHOOSE j \in 1..Len(AnalysisOrder) : AnalysisOrder[j] = fn
    IN  IF i = Len(AnalysisOrder) THEN "rendered" ELSE AnalysisOrder[i + 1]

InitApp ==
    /\ text \in Docs(ScanPool, MaxAppLines)
    /\ pc = "upload"
    /\ lines = <<>>
    /\ idx = 1
    /\ cur = InitialCur
    /\ records = <<>>
    /\ table = EmptyDataFrame
    /\ call = NoCall

\* Lines 196-206: the user preprocessor, if present, is tried; its
\* exception is caught; robust_preprocess runs unless it gave a non-empty
\* table with the required columns.
TryUserPreprocessor ==
    /\ pc = "upload"
    /\ \E o \in UserPreOutcomes :
          /\ call' = [fn |-> "user_pre.preprocess", selected_user |-> <<>>,
                      outcome |-> o.kind]
          /\ IF needs_fallback(o) THEN pc' = "start" /\ table' = table
             ELSE pc' = "done" /\ table' = o.df
    /\ UNCHANGED <<text, lines, idx, cur, records>>

\* Variant of Validate that lets every table through.
ValidateSkipped ==
    /\ pc = "done"
    /\ pc' = "ui"
    /\ UNCHANGED <<text, lines, idx, cur, records, table, call>>

\* Lines 208-214: an empty table, or one without the required columns,
\* ends in st.error and st.stop().
Validate ==
    /\ pc = "done"
    /\ pc' = IF IsEmpty(table) THEN "stopped"
             ELSE IF ~(RequiredColumns \subseteq table.columns) THEN "stopped"
             ELSE "ui"
    /\ UNCHANGED <<text, lines, idx, cur, records, table, call>>

\* Lines 216-220: a user is selected and the button pressed.
ShowAnalysis ==
    /\ pc = "ui"
    /\ \E u \in build_user_list(table) :
          call' = [fn |-> "", selected_user |-> u, outcome |-> ""]
    /\ pc' = AnalysisOrder[1]
    /\ UNCHANGED <<text, lines, idx, cur, records, table>>

\* Lines 221-397: the next helper is called inside its try/except; a
\* failure of fetch_stats stops the app, most_busy_users runs for 'Overall'
\* only.
AnalysisStep ==
    /\ pc \in Helpers
    /\ LET u == call.selected_user
           out == helper_outcome(pc, u, table)
       IN  IF pc = "most_busy_users" /\ u # Overall
           THEN call' = call /\ pc' = next_step(pc)
           ELSE /\ call' = [fn |-> pc, selected_user |-> u, outcome |-> out]
                /\ pc' = IF pc = "fetch_stats" /\ out = "raised" THEN "stopped"
                         ELSE next_step(pc)
    /\ UNCHANGED <<text, lines, idx, cur, records, table>>

NextApp ==
    \/ TryUserPreprocessor
    \/ Start \/ ScanHeader \/ ScanContinuation \/ Finish
    \/ Validate
    \/ ShowAnalysis
    \/ AnalysisStep

SpecApp == InitApp /\ [][NextApp]_vars

\* The states in which the analysis is on screen or running.
AnalysisStates == {"ui", "rendered"} \cup Helpers

(* C11: in the application flow no state past the validation has an empty  *)
(* table unless the app has stopped there with its error; a helper has     *)
(* been called only on a non-empty table with the required columns; a stop *)
(* before any helper call means the table was empty or lacked a required   *)
(* column; and the flow has no state other than those of the flow, also    *)
(* after the user preprocessor raised.                                     *)
C11_EmptyTableStopsApp ==
    /\ pc \in {"upload", "start", "scan", "done", "stopped"} \cup AnalysisStates
    /\ pc \in AnalysisStates =>
          (~IsEmpty(table) /\ RequiredColumns \subseteq table.columns)
    /\ call.fn \in Helpers => ~IsEmpty(table)
    /\ (pc = "stopped" /\ call.fn \notin Helpers) =>
          (IsEmpty(table) \/ ~(RequiredColumns \subseteq table.columns))
    /\ (pc = "stopped" /\ IsEmpty(table)) => call.fn \notin Helpers

\* C11 witness: the user preprocessor raised, robust_preprocess ran on a
\* text with lines and gave the empty table, and the app stopped.
C11_Witness ==
    /\ pc = "stopped"
    /\ call.fn = "user_pre.preprocess"
    /\ call.outcome = "raised"
    /\ lines # <<>>
    /\ table = EmptyDataFrame

----------------------------------------------------------------------------
(* System lines and times without a space before the marker.               *)

\* The date/time prefixes of the two delimiter styles, without the
\* 'author: ' segment: "date, time - " and "[date, time] ".
PrefixAndroid ==
    DateGroup \o Lits(<<",", " ">>) \o HourMinute \o Opt(AmPm)
              \o Lits(<<" ", "-", " ">>)

PrefixIos ==
    Lits(<<"[">>) \o DateGroup \o Lits(<<",", " ">>)
              \o HourMinute \o OptSeconds \o Opt(AmPm) \o Lits(<<"]", " ">>)

\* The lines that start with such a prefix and that no grammar accepts.
NoticeTable ==
    {ln \in ScanPool \cup DatePool :
        /\ ~IsHeader(ln)
        /\ \/ ReMatch(PrefixAndroid, ln) # None
           \/ ReMatch(PrefixIos, ln) # None}

IsNotice(ln) == ln \in NoticeTable

\* The lines of a record's body after its first.
AppendedLines(rec) ==
    LET parts == Split(rec.message, "\n")
    IN  {parts[j] : j \in 2..Len(parts)}

(* C12: when the scan is over, each system line (date/time prefix, no      *)
(* 'author: ' segment) has a record of author 'group_notification' of its  *)
(* own, one record per system line, and is an appended body line of no     *)
(* record.                                                                 *)
C12_NoticeStartsOwnRecord ==
    pc = "done" =>
        LET N == {i \in 1..Len(lines) : IsNotice(lines[i])}
        IN  /\ Cardinality({r \in 1..Len(records) :
                    records[r].user = group_notification}) >= Cardinality(N)
            /\ \A i \in N : \A r \in 1..Len(records) :
                  lines[i] \notin AppendedLines(records[r])

\* The time capture of a header line read by hand: its numbers and its
\* marker, whatever the whitespace between them.
TimeNumbers(ln) ==
    Split(SelectSeq(Fields(ln).time_raw,
                    LAMBDA c : c \in DigitChars \cup {":"}), ":")

TimeMarker(ln) ==
    LET up == Upper(Fields(ln).time_raw)
    IN  IF Len(up) >= 2 /\ up[Len(up)] = "M" THEN up[Len(up) - 1] ELSE ""

\* Hour, minute and second of the capture when they are in range.
TimeInRange(ln) ==
    LET n == TimeNumbers(ln)
    IN  /\ ToInt(n[1]) \in (IF TimeMarker(ln) = "" THEN 0..23 ELSE 1..12)
        /\ ToInt(n[2]) \in 0..59
        /\ Len(n) = 3 => ToInt(n[3]) \in 0..59

\* The hour of day the capture stands for.
HourRead(ln) ==
    LET h == ToInt(TimeNumbers(ln)[1])
    IN  IF TimeMarker(ln) = "" THEN h
        ELSE (h % 12) + (IF TimeMarker(ln) = "P" THEN 12 ELSE 0)

\* The date capture is a date of the calendar, as day/month or month/day,
\* with a year of 2 or 4 digits.
DateInCalendar(ln) ==
    LET parts == DateParts(ln)
        a == ToInt(parts[1])
        b == ToInt(parts[2])
    IN  /\ Len(parts[3]) \in {2, 4}
        /\ \/ ValidDate(YearRead(parts[3]), b, a)
           \/ ValidDate(YearRead(parts[3]), a, b)

(* C13: when the scan is over, each header line whose date is a date of    *)
(* the calendar and whose hour, minute and second are in range resolved a  *)
(* timestamp with the hour and minute its time capture stands for, with or *)
(* without whitespace before the AM/PM marker, and has a record with that  *)
(* timestamp.                                                              *)
C13_AcceptedLineResolves ==
    pc = "done" =>
        \A i \in HeaderIdx(lines) :
            (DateInCalendar(lines[i]) /\ TimeInRange(lines[i])) =>
                LET dt == Fields(lines[i]).parsed_dt
                IN  /\ dt # None
                    /\ dt[1].hour = HourRead(lines[i])
                    /\ dt[1].minute = ToInt(TimeNumbers(lines[i])[2])
                    /\ \E r \in 1..Len(records) : records[r].datetime = dt[1]

====
